---- MODULE Spec2Model ----
(***************************************************************************)
(* A model of motive/matrix_op.h: the operation taxonomy, the descriptor   *)
(* MatrixOperationInit, the descriptor sequence MatrixOpArray and the      *)
(* runtime operation MatrixOperation.                                      *)
(*                                                                         *)
(* Numbers.  A C++ float is modelled by an integer.  Values (angles,       *)
(* translations, scales) are whole units.  Spline x coordinates and        *)
(* SplinePlayback::blend_x are floats that the code converts to the        *)
(* integer MotiveTime with static_cast; to keep the conversion visible     *)
(* they are counted in halves of a time unit (3 stands for 1.5), and       *)
(* StaticCastMotiveTime truncates them.                                    *)
(*                                                                         *)
(* assert() is modelled with the assertions enabled: a failed assertion    *)
(* aborts the program, which is the state fault # NoFault, where no        *)
(* further call is possible.                                               *)
(***************************************************************************)
EXTENDS Integers, Sequences, FiniteSets, TLC

(***************************************************************************)
(* Bounds of the model.                                                    *)
(***************************************************************************)
\* Number of MatrixOperation objects that may exist at once.
NumOps == 2
\* Longest descriptor sequence that AddOp may build.
MaxArrayLen == 3

(***************************************************************************)
(* MatrixOpId                                                              *)
(***************************************************************************)
kMaxMatrixOpId == 254
kInvalidMatrixOpId == 255

(***************************************************************************)
(* enum MatrixOperationType                                                *)
(***************************************************************************)
kInvalidMatrixOperation == 0
kRotateAboutX == 1
kRotateAboutY == 2
kRotateAboutZ == 3
kTranslateX == 4
kTranslateY == 5
kTranslateZ == 6
kScaleX == 7
kScaleY == 8
kScaleZ == 9
kScaleUniformly == 10
\* The count of the kinds, not itself a kind.
kNumMatrixOperationTypes == 11

\* The kinds an operation can have: the enumerators below the count.
MatrixOperationType == kInvalidMatrixOperation .. (kNumMatrixOperationTypes - 1)

RotateOp_Mutant(op) == kRotateAboutX <= op /\ op <= kTranslateX

RotateOp(op) == kRotateAboutX <= op /\ op <= kRotateAboutZ

TranslateOp(op) == kTranslateX <= op /\ op <= kTranslateZ

ScaleOp(op) == kScaleX <= op /\ op <= kScaleUniformly

OperationDefaultValue_Mutant(op) ==
  IF kScaleX <= op /\ op <= kScaleZ THEN 1 ELSE 0

OperationDefaultValue(op) == IF ScaleOp(op) THEN 1 ELSE 0

(***************************************************************************)
(* Collaborators that matrix_op.h includes: angle.h, compact_spline.h,     *)
(* common.h, target.h.                                                     *)
(***************************************************************************)
\* pi on the model's integer grid of values.
kPi == 3

\* Angle::IsAngleInRange: the canonical range of a rotation is (-pi, pi].
IsAngleInRange(v) == -kPi < v /\ v <= kPi

\* static_cast<MotiveTime>(float) for a float >= 0 counted in halves:
\* conversion to the integer MotiveTime truncates toward zero.
StaticCastMotiveTime(halves) == halves \div 2

\* MotiveNode1f.
Node(v, vel, t) == [value |-> v, velocity |-> vel, time |-> t]

\* Current1f(value): a target of one node at time 0, which sets the current value.
Current1f(v) == << Node(v, 0, 0) >>

\* Target1f(value, velocity, time): a target of one node to reach at `time`.
Target1f(v, vel, t) == << Node(v, vel, t) >>

\* CompactSpline: the y value at its start and end, and EndX() in halves.
Spline(y0, y1, endx) == [start_y |-> y0, end_y |-> y1, end_x |-> endx]

EndX(s) == s.end_x

\* SplinePlayback: start_x and blend_x in halves; the default
\* SplinePlayback() starts at 0, does not blend, plays at rate 1, once.
Playback(blend, rate, rep) ==
  [start_x |-> 0, blend_x |-> blend, playback_rate |-> rate, repeat |-> rep]

SplinePlayback == Playback(0, 1, FALSE)

(***************************************************************************)
(* struct MatrixOperationInit.  A member of the union that a constructor   *)
(* does not write holds a placeholder (NoValue, NoTarget, NoSpline); the   *)
(* code reads only the member that union_type names.                       *)
(***************************************************************************)
kUnionEmpty == 0
kUnionInitialValue == 1
kUnionTarget == 2
kUnionSpline == 3

NoValue == 0
NoTarget == << >>
NoSpline == Spline(0, 0, 0)
nullptr == "nullptr"

\* MatrixOperationInit(id, type, const_value)
InitConst(id, type, const_value) ==
  [init |-> nullptr, id |-> id, type |-> type, union_type |-> kUnionInitialValue,
   initial_value |-> const_value, target |-> NoTarget, spline |-> NoSpline]

\* MatrixOperationInit(id, type, init)
InitMotivator_Mutant(id, type, init) ==
  [init |-> nullptr, id |-> id, type |-> type, union_type |-> kUnionEmpty,
   initial_value |-> NoValue, target |-> NoTarget, spline |-> NoSpline]

InitMotivator(id, type, init) ==
  [init |-> init, id |-> id, type |-> type, union_type |-> kUnionEmpty,
   initial_value |-> NoValue, target |-> NoTarget, spline |-> NoSpline]

\* MatrixOperationInit(id, type, init, initial_value)
InitMotivatorValue(id, type, init, initial_value) ==
  [init |-> init, id |-> id, type |-> type, union_type |-> kUnionInitialValue,
   initial_value |-> initial_value, target |-> NoTarget, spline |-> NoSpline]

\* MatrixOperationInit(id, type, init, target)
InitMotivatorTarget(id, type, init, target) ==
  [init |-> init, id |-> id, type |-> type, union_type |-> kUnionTarget,
   initial_value |-> NoValue, target |-> target, spline |-> NoSpline]

\* MatrixOperationInit(id, type, init, spline)
InitMotivatorSpline(id, type, init, spline) ==
  [init |-> init, id |-> id, type |-> type, union_type |-> kUnionSpline,
   initial_value |-> NoValue, target |-> NoTarget, spline |-> spline]

(***************************************************************************)
(* State.                                                                  *)
(***************************************************************************)
VARIABLES
  ops_,    \* MatrixOpArray::ops_, the descriptor sequence
  op,      \* the MatrixOperation objects, by slot
  engine,  \* MotiveEngine: the handles of the motivators it holds
  fault,   \* NoFault, or the assertion that aborted the program
  hist     \* history of each slot: what the callers passed (read by no action)

vars == << ops_, op, engine, fault, hist >>

Ops == 1 .. NumOps

NoFault == "none"

(***************************************************************************)
(* class MatrixOpArray                                                     *)
(***************************************************************************)
\* explicit MatrixOpArray(int expected_num_ops): reserve() changes only the
\* capacity of the vector, which no member of the class reads.
MatrixOpArray == << >>

kDefaultExpectedNumOps == 8

\* ops_.push_back(init)
PushBack(init) ==
  /\ fault = NoFault
  /\ Len(ops_) < MaxArrayLen
  /\ ops_' = Append(ops_, init)
  /\ UNCHANGED << op, engine, fault, hist >>

AddOpConst(id, type, const_value) == PushBack(InitConst(id, type, const_value))

AddOpMotivator(id, type, init) == PushBack(InitMotivator(id, type, init))

AddOpValue(id, type, init, initial_value) ==
  PushBack(InitMotivatorValue(id, type, init, initial_value))

AddOpTarget(id, type, init, target) ==
  PushBack(InitMotivatorTarget(id, type, init, target))

AddOpSpline(id, type, init, spline) ==
  PushBack(InitMotivatorSpline(id, type, init, spline))

\* void Clear(int expected_num_ops): ops_.clear(), then reserve(), which
\* changes only the capacity.
Clear(expected_num_ops) ==
  /\ fault = NoFault
  /\ ops_' = << >>
  /\ UNCHANGED << op, engine, fault, hist >>

Max(a, b) == IF a >= b THEN a ELSE b

\* The loop of EndTime() over ops_[1..n], from end_time = 0.
RECURSIVE EndTimeLoop_Mutant(_, _)
EndTimeLoop_Mutant(seq, n) ==
  IF n = 0 THEN 0
  ELSE LET end_time == EndTimeLoop_Mutant(seq, n - 1)
           o == seq[n]
       IN IF o.union_type = kUnionSpline
            THEN StaticCastMotiveTime(EndX(o.spline))
            ELSE end_time

RECURSIVE EndTimeLoop(_, _)
EndTimeLoop(seq, n) ==
  IF n = 0 THEN 0
  ELSE LET end_time == EndTimeLoop(seq, n - 1)
           o == seq[n]
       IN IF o.union_type = kUnionSpline
            THEN Max(end_time, StaticCastMotiveTime(EndX(o.spline)))
            ELSE end_time

EndTime == EndTimeLoop(ops_, Len(ops_))

(***************************************************************************)
(* Motivator1f and MotiveEngine, the one-dimensional time-varying value    *)
(* that a motivator-driven operation owns.  A motivator record holds       *)
(*   handle  its registration with the engine                              *)
(*   value   Value()                                                       *)
(*   src     the target or spline it was last given: << "none" >>,         *)
(*           << "target", t >> or << "spline", s, playback >>              *)
(*   goal    the value it is heading to                                    *)
(*   time    TargetTime(), the time left to reach the goal                 *)
(*   rate    the spline playback rate                                      *)
(***************************************************************************)
\* The value of a motivator that has not been given a target yet.
kNewMotivatorValue == 0

\* No motivator: the union member was not constructed.
NoMotivator ==
  [handle |-> 0, value |-> 0, src |-> << "none" >>, goal |-> 0, time |-> 0, rate |-> 0]

\* MotiveEngine hands out the lowest handle that is free.
NewHandle(held) == CHOOSE h \in 1 .. (Cardinality(held) + 1) :
                     /\ h \notin held
                     /\ \A g \in 1 .. (h - 1) : g \in held

\* Motivator1f(init, engine)
NewMotivator(h) ==
  [handle |-> h, value |-> kNewMotivatorValue, src |-> << "none" >>,
   goal |-> kNewMotivatorValue, time |-> 0, rate |-> 1]

\* Motivator1f::SetTarget(t): a first node at time 0 sets the current value;
\* the motivator then heads to the last node, from its current value.
SetTarget(m, t) ==
  LET first == t[1]
      last == t[Len(t)]
  IN [m EXCEPT !.value = IF first.time = 0 THEN first.value ELSE m.value,
               !.src = << "target", t >>,
               !.goal = last.value,
               !.time = last.time]

\* Motivator1f::SetSpline(s, playback): follow the spline from start_x; with
\* no blend the value jumps to the spline's, otherwise it eases in from the
\* current value.
SetSpline(m, s, playback) ==
  [m EXCEPT !.value = IF playback.blend_x = 0 THEN s.start_y ELSE m.value,
            !.src = << "spline", s, playback >>,
            !.goal = s.end_y,
            !.time = StaticCastMotiveTime(EndX(s) - playback.start_x),
            !.rate = playback.playback_rate]

\* Motivator1f::SetSplinePlaybackRate(rate)
SetSplinePlaybackRate(m, playback_rate) == [m EXCEPT !.rate = playback_rate]

\* Motivator1f::Value()
MotivatorValue(m) == m.value

\* Motivator1f::TargetTime()
TargetTime(m) == m.time

\* One MotiveEngine::AdvanceFrame(delta_time) of one motivator: a spline
\* advances by delta_time * rate and starts over at its end when it repeats;
\* a target is approached in delta_time steps and then held.
Advance(m, delta_time) ==
  LET onSpline == m.src[1] = "spline"
      step == IF onSpline THEN delta_time * m.rate ELSE delta_time
      adv == IF step < m.time THEN step ELSE m.time
  IN IF m.time = 0
       THEN IF onSpline /\ m.src[3].repeat /\ step > 0
              THEN [m EXCEPT !.value = m.src[2].start_y,
                             !.time = StaticCastMotiveTime(EndX(m.src[2]))]
              ELSE [m EXCEPT !.value = m.goal]
       ELSE [m EXCEPT !.time = m.time - adv,
                      !.value = IF adv = m.time THEN m.goal
                                ELSE m.value + ((m.goal - m.value) * adv) \div m.time]

(***************************************************************************)
(* class MatrixOperation.  A slot holds no object ("none") or a live one   *)
(* ("live").  The union value_ has the members const_value and motivator;  *)
(* the member that is not in use holds a placeholder (NoValue,             *)
(* NoMotivator), as do the fields of a slot without an object.             *)
(***************************************************************************)
\* enum AnimationType
kInvalidAnimationType == 0
kMotivatorAnimation == 1
kConstValueAnimation == 2

NoObject ==
  [state |-> "none", matrix_operation_id_ |-> 0, matrix_operation_type_ |-> 0,
   animation_type_ |-> 0, const_value |-> NoValue, motivator |-> NoMotivator]

\* What the callers did to a slot's object since its construction:
\*   ctor     init, id and type of the descriptor it was constructed from
\*            ("default" for the default constructor)
\*   passed   the value last passed to the constructor, SetValue1f or BlendToOp
\*   want     the target or spline last requested by a blend call or SetTarget1f
\*   pending  0, or 1 or 2 when BlendToDefault was called and no other blend
\*            call followed: each BlendToDefault call changes the number
\*   last     the member function called last
NoCtor == [init |-> "", id |-> 0, type |-> 0]

NoHistory ==
  [ctor |-> NoCtor, passed |-> NoValue, want |-> << "none" >>, pending |-> 0,
   last |-> ""]

\* The constructor's choice of the animation type.
AnimationTypeOf_Mutant(init) ==
  IF init.union_type = kUnionInitialValue THEN kConstValueAnimation
  ELSE kMotivatorAnimation

AnimationTypeOf(init) ==
  IF init.init = nullptr THEN kConstValueAnimation ELSE kMotivatorAnimation

\* The target that BlendToOp gives the motivator for kUnionInitialValue.
InitialValueTarget_Mutant(init, playback) == Current1f(init.initial_value)

InitialValueTarget_Eased(init, playback) == Target1f(init.initial_value, 0, 1)

InitialValueTarget(init, playback) ==
  Target1f(init.initial_value, 0, StaticCastMotiveTime(playback.blend_x))

\* BlendToOp(init, playback) on the object m: the object afterwards, and the
\* assertion that failed, if one did.
BlendToOpOn_Mutant(m, init, playback) ==
  IF m.animation_type_ = kMotivatorAnimation
    THEN [obj |-> IF init.union_type = kUnionInitialValue
                    THEN [m EXCEPT !.motivator =
                            SetTarget(@, InitialValueTarget(init, playback))]
                    ELSE m,
          fault |-> NoFault]
  ELSE IF m.animation_type_ = kConstValueAnimation
    THEN IF init.union_type = kUnionInitialValue
           THEN [obj |-> [m EXCEPT !.const_value = init.initial_value],
                 fault |-> NoFault]
           ELSE [obj |-> m, fault |-> "BlendToOp"]
  ELSE [obj |-> m, fault |-> "BlendToOp"]

BlendToOpOn_Overwrite(m, init, playback) ==
  IF m.animation_type_ = kMotivatorAnimation
    THEN [obj |->
            CASE init.union_type = kUnionEmpty -> m
              [] init.union_type = kUnionInitialValue ->
                   [m EXCEPT !.motivator =
                      SetTarget(@, InitialValueTarget(init, playback))]
              [] init.union_type = kUnionTarget ->
                   [m EXCEPT !.motivator = SetTarget(@, init.target)]
              [] init.union_type = kUnionSpline ->
                   [m EXCEPT !.motivator = SetSpline(@, init.spline, playback)],
          fault |-> NoFault]
  ELSE IF m.animation_type_ = kConstValueAnimation
    THEN [obj |-> [m EXCEPT !.const_value = init.initial_value],
          fault |-> NoFault]
  ELSE [obj |-> m, fault |-> "BlendToOp"]

BlendToOpOn_Reset(m, init, playback) ==
  IF m.animation_type_ = kMotivatorAnimation
    THEN [obj |->
            CASE init.union_type = kUnionEmpty ->
                   [m EXCEPT !.motivator = SetTarget(@, Current1f(kNewMotivatorValue))]
              [] init.union_type = kUnionInitialValue ->
                   [m EXCEPT !.motivator =
                      SetTarget(@, InitialValueTarget(init, playback))]
              [] init.union_type = kUnionTarget ->
                   [m EXCEPT !.motivator = SetTarget(@, init.target)]
              [] init.union_type = kUnionSpline ->
                   [m EXCEPT !.motivator = SetSpline(@, init.spline, playback)],
          fault |-> NoFault]
  ELSE IF m.animation_type_ = kConstValueAnimation
    THEN IF init.union_type = kUnionInitialValue
           THEN [obj |-> [m EXCEPT !.const_value = init.initial_value],
                 fault |-> NoFault]
           ELSE [obj |-> m, fault |-> "BlendToOp"]
  ELSE [obj |-> m, fault |-> "BlendToOp"]

BlendToOpOn(m, init, playback) ==
  IF m.animation_type_ = kMotivatorAnimation
    THEN [obj |->
            CASE init.union_type = kUnionEmpty -> m
              [] init.union_type = kUnionInitialValue ->
                   [m EXCEPT !.motivator =
                      SetTarget(@, InitialValueTarget(init, playback))]
              [] init.union_type = kUnionTarget ->
                   [m EXCEPT !.motivator = SetTarget(@, init.target)]
              [] init.union_type = kUnionSpline ->
                   [m EXCEPT !.motivator = SetSpline(@, init.spline, playback)],
          fault |-> NoFault]
  ELSE IF m.animation_type_ = kConstValueAnimation
    THEN IF init.union_type = kUnionInitialValue
           THEN [obj |-> [m EXCEPT !.const_value = init.initial_value],
                 fault |-> NoFault]
           ELSE [obj |-> m, fault |-> "BlendToOp"]
  ELSE [obj |-> m, fault |-> "BlendToOp"]

\* What a blend call with this descriptor asks of the motivator.
Requested(init, playback, before) ==
  CASE init.union_type = kUnionEmpty -> before
    [] init.union_type = kUnionInitialValue ->
         << "target", << Node(init.initial_value, 0,
                              StaticCastMotiveTime(playback.blend_x)) >> >>
    [] init.union_type = kUnionTarget -> << "target", init.target >>
    [] init.union_type = kUnionSpline -> << "spline", init.spline, playback >>

\* MatrixOperation(): type and animation type invalid; the id and value_ are
\* not initialised, so they hold whatever the memory held.
ConstructDefault(o, id, garbage) ==
  /\ fault = NoFault
  /\ op[o].state = "none"
  /\ op' = [op EXCEPT ![o] =
       [state |-> "live", matrix_operation_id_ |-> id,
        matrix_operation_type_ |-> kInvalidMatrixOperation,
        animation_type_ |-> kInvalidAnimationType,
        const_value |-> garbage, motivator |-> NoMotivator]]
  /\ hist' = [hist EXCEPT ![o] =
       [NoHistory EXCEPT !.ctor.init = "default", !.last = "MatrixOperation"]]
  /\ UNCHANGED << ops_, engine, fault >>

\* MatrixOperation(init, engine): SetId asserts the id, then the motivator is
\* constructed in place when the operation is motivator driven, then
\* BlendToOp(init, SplinePlayback()).
Construct_Mutant(o, init) ==
  /\ fault = NoFault
  /\ op[o].state = "none"
  /\ IF ~(init.id <= kInvalidMatrixOpId)
       THEN /\ fault' = "SetId"
            /\ UNCHANGED << ops_, op, engine, hist >>
       ELSE LET animation_type == AnimationTypeOf(init)
                h == NewHandle(engine)
                made == [state |-> "live", matrix_operation_id_ |-> init.id,
                         matrix_operation_type_ |-> init.type,
                         animation_type_ |-> animation_type,
                         const_value |-> NoValue,
                         motivator |-> IF animation_type = kMotivatorAnimation
                                         THEN NewMotivator(h) ELSE NoMotivator]
                r == BlendToOpOn(made, init, SplinePlayback)
            IN IF r.fault # NoFault
                 THEN /\ fault' = r.fault
                      /\ UNCHANGED << ops_, op, engine, hist >>
                 ELSE /\ op' = [op EXCEPT ![o] = r.obj]
                      /\ engine' = IF animation_type = kMotivatorAnimation
                                     THEN engine \cup {h} ELSE engine
                      /\ hist' = [hist EXCEPT ![o] =
                           [ctor |-> [init |-> init.init, id |-> init.id,
                                      type |-> init.type],
                            passed |-> init.initial_value,
                            want |-> Requested(init, SplinePlayback, << "none" >>),
                            pending |-> 0,
                            last |-> "MatrixOperation"]]
                      /\ UNCHANGED << ops_, fault >>

Construct(o, init) ==
  /\ fault = NoFault
  /\ op[o].state = "none"
  /\ IF ~(init.id <= kMaxMatrixOpId)
       THEN /\ fault' = "SetId"
            /\ UNCHANGED << ops_, op, engine, hist >>
       ELSE LET animation_type == AnimationTypeOf(init)
                h == NewHandle(engine)
                made == [state |-> "live", matrix_operation_id_ |-> init.id,
                         matrix_operation_type_ |-> init.type,
                         animation_type_ |-> animation_type,
                         const_value |-> NoValue,
                         motivator |-> IF animation_type = kMotivatorAnimation
                                         THEN NewMotivator(h) ELSE NoMotivator]
                r == BlendToOpOn(made, init, SplinePlayback)
            IN IF r.fault # NoFault
                 THEN /\ fault' = r.fault
                      /\ UNCHANGED << ops_, op, engine, hist >>
                 ELSE /\ op' = [op EXCEPT ![o] = r.obj]
                      /\ engine' = IF animation_type = kMotivatorAnimation
                                     THEN engine \cup {h} ELSE engine
                      /\ hist' = [hist EXCEPT ![o] =
                           [ctor |-> [init |-> init.init, id |-> init.id,
                                      type |-> init.type],
                            passed |-> init.initial_value,
                            want |-> Requested(init, SplinePlayback, << "none" >>),
                            pending |-> 0,
                            last |-> "MatrixOperation"]]
                      /\ UNCHANGED << ops_, fault >>

\* ~MatrixOperation(): the motivator's destructor runs when the operation is
\* motivator driven, which hands its handle back to the engine.
Destroy_Mutant(o) ==
  /\ fault = NoFault
  /\ op[o].state = "live"
  /\ op' = [op EXCEPT ![o] = NoObject]
  /\ hist' = [hist EXCEPT ![o] = NoHistory]
  /\ UNCHANGED << ops_, engine, fault >>

Destroy(o) ==
  /\ fault = NoFault
  /\ op[o].state = "live"
  /\ engine' = IF op[o].animation_type_ = kMotivatorAnimation
                 THEN engine \ {op[o].motivator.handle} ELSE engine
  /\ op' = [op EXCEPT ![o] = NoObject]
  /\ hist' = [hist EXCEPT ![o] = NoHistory]
  /\ UNCHANGED << ops_, fault >>

\* Id()
Id(o) == op[o].matrix_operation_id_

\* Type()
Type(o) == op[o].matrix_operation_type_

\* Value()
Value(o) ==
  IF op[o].animation_type_ = kMotivatorAnimation
    THEN MotivatorValue(op[o].motivator) ELSE op[o].const_value

\* Blendable(init)
Blendable_Mutant(o, init) ==
  op[o].matrix_operation_id_ = init.id /\ op[o].matrix_operation_type_ = init.type

Blendable(o, init) == op[o].matrix_operation_id_ = init.id

\* ValueMotivator(): the motivator's identity, or nullptr.
ValueMotivator(o) ==
  IF op[o].animation_type_ = kMotivatorAnimation
    THEN op[o].motivator.handle ELSE nullptr

\* Motivator(): the assertion it makes before it hands out the union's memory.
MotivatorAsserts(o) == op[o].animation_type_ = kMotivatorAnimation

\* The assertion that a call of ValueMotivator() fails, if it fails one.
ValueMotivatorFault_Mutant(o) ==
  IF MotivatorAsserts(o) THEN NoFault ELSE "Motivator"

ValueMotivatorFault(o) ==
  IF op[o].animation_type_ = kMotivatorAnimation
    THEN IF MotivatorAsserts(o) THEN NoFault ELSE "Motivator"
    ELSE NoFault

\* TimeRemaining()
TimeRemaining_Mutant(o) == 0

TimeRemaining(o) ==
  IF op[o].animation_type_ = kMotivatorAnimation
    THEN TargetTime(op[o].motivator) ELSE 0

\* SetTarget1f(t): Motivator() asserts that the operation is motivator driven.
SetTarget1f(o, t) ==
  /\ fault = NoFault
  /\ op[o].state = "live"
  /\ IF op[o].animation_type_ # kMotivatorAnimation
       THEN /\ fault' = "Motivator"
            /\ UNCHANGED << ops_, op, engine, hist >>
       ELSE /\ op' = [op EXCEPT ![o].motivator = SetTarget(@, t)]
            /\ hist' = [hist EXCEPT ![o].want = << "target", t >>,
                                    ![o].pending = 0,
                                    ![o].last = "SetTarget1f"]
            /\ UNCHANGED << ops_, engine, fault >>

\* SetValue1f(value)
SetValue1f_Mutant(o, value) ==
  /\ fault = NoFault
  /\ op[o].state = "live"
  /\ IF ~(op[o].animation_type_ = kConstValueAnimation
          /\ (~RotateOp(Type(o)) \/ IsAngleInRange(value)))
       THEN /\ fault' = "SetValue1f"
            /\ UNCHANGED << ops_, op, engine, hist >>
       ELSE /\ op' = [op EXCEPT ![o].const_value = (@ + value) \div 2]
            /\ hist' = [hist EXCEPT ![o].passed = value,
                                    ![o].last = "SetValue1f"]
            /\ UNCHANGED << ops_, engine, fault >>

SetValue1f_AnyAngle(o, value) ==
  /\ fault = NoFault
  /\ op[o].state = "live"
  /\ IF ~(op[o].animation_type_ = kConstValueAnimation)
       THEN /\ fault' = "SetValue1f"
            /\ UNCHANGED << ops_, op, engine, hist >>
       ELSE /\ op' = [op EXCEPT ![o].const_value = value]
            /\ hist' = [hist EXCEPT ![o].passed = value,
                                    ![o].last = "SetValue1f"]
            /\ UNCHANGED << ops_, engine, fault >>

SetValue1f(o, value) ==
  /\ fault = NoFault
  /\ op[o].state = "live"
  /\ IF ~(op[o].animation_type_ = kConstValueAnimation
          /\ (~RotateOp(Type(o)) \/ IsAngleInRange(value)))
       THEN /\ fault' = "SetValue1f"
            /\ UNCHANGED << ops_, op, engine, hist >>
       ELSE /\ op' = [op EXCEPT ![o].const_value = value]
            /\ hist' = [hist EXCEPT ![o].passed = value,
                                    ![o].last = "SetValue1f"]
            /\ UNCHANGED << ops_, engine, fault >>

\* BlendToOp(init, playback)
BlendToOp_Mutant(o, init, playback) ==
  /\ fault = NoFault
  /\ op[o].state = "live"
  /\ LET r == BlendToOpOn(op[o], init, playback)
     IN IF r.fault # NoFault
          THEN /\ fault' = r.fault
               /\ UNCHANGED << ops_, op, engine, hist >>
          ELSE /\ op' = [op EXCEPT ![o] =
                      [r.obj EXCEPT !.matrix_operation_id_ = init.id,
                                    !.matrix_operation_type_ = init.type]]
               /\ hist' = [hist EXCEPT
                    ![o].passed = IF init.union_type = kUnionInitialValue
                                    THEN init.initial_value ELSE @,
                    ![o].want = Requested(init, playback, @),
                    ![o].pending = IF init.union_type = kUnionEmpty THEN @ ELSE 0,
                    ![o].last = "BlendToOp"]
               /\ UNCHANGED << ops_, engine, fault >>

BlendToOp(o, init, playback) ==
  /\ fault = NoFault
  /\ op[o].state = "live"
  /\ LET r == BlendToOpOn(op[o], init, playback)
     IN IF r.fault # NoFault
          THEN /\ fault' = r.fault
               /\ UNCHANGED << ops_, op, engine, hist >>
          ELSE /\ op' = [op EXCEPT ![o] = r.obj]
               /\ hist' = [hist EXCEPT
                    ![o].passed = IF init.union_type = kUnionInitialValue
                                    THEN init.initial_value ELSE @,
                    ![o].want = Requested(init, playback, @),
                    ![o].pending = IF init.union_type = kUnionEmpty THEN @ ELSE 0,
                    ![o].last = "BlendToOp"]
               /\ UNCHANGED << ops_, engine, fault >>

\* The target that BlendToDefault gives the motivator.
DefaultTarget_Mutant(type, blend_time) ==
  IF blend_time = 0 THEN Current1f(0) ELSE Target1f(0, 0, blend_time)

DefaultTarget(type, blend_time) ==
  LET default_value == OperationDefaultValue(type)
  IN IF blend_time = 0 THEN Current1f(default_value)
     ELSE Target1f(default_value, 0, blend_time)

\* BlendToDefault(blend_time)
BlendToDefault_Mutant(o, blend_time) ==
  /\ fault = NoFault
  /\ op[o].state = "live"
  /\ IF op[o].animation_type_ = kConstValueAnimation
       THEN /\ op' = [op EXCEPT ![o].const_value = OperationDefaultValue(Type(o))]
            /\ hist' = [hist EXCEPT ![o].last = "BlendToDefault"]
            /\ UNCHANGED << ops_, engine, fault >>
     ELSE IF op[o].animation_type_ # kMotivatorAnimation
       THEN /\ fault' = "BlendToDefault"
            /\ UNCHANGED << ops_, op, engine, hist >>
     ELSE /\ op' = [op EXCEPT ![o].motivator =
                      SetTarget(@, DefaultTarget(Type(o), blend_time))]
          /\ hist' = [hist EXCEPT
               ![o].want = << "target", DefaultTarget(Type(o), blend_time) >>,
               ![o].pending = IF @ = 1 THEN 2 ELSE 1,
               ![o].last = "BlendToDefault"]
          /\ UNCHANGED << ops_, engine, fault >>

BlendToDefault(o, blend_time) ==
  /\ fault = NoFault
  /\ op[o].state = "live"
  /\ IF op[o].animation_type_ = kConstValueAnimation
       THEN /\ hist' = [hist EXCEPT ![o].last = "BlendToDefault"]
            /\ UNCHANGED << ops_, op, engine, fault >>
     ELSE IF op[o].animation_type_ # kMotivatorAnimation
       THEN /\ fault' = "BlendToDefault"
            /\ UNCHANGED << ops_, op, engine, hist >>
     ELSE /\ op' = [op EXCEPT ![o].motivator =
                      SetTarget(@, DefaultTarget(Type(o), blend_time))]
          /\ hist' = [hist EXCEPT
               ![o].want = << "target", DefaultTarget(Type(o), blend_time) >>,
               ![o].pending = IF @ = 1 THEN 2 ELSE 1,
               ![o].last = "BlendToDefault"]
          /\ UNCHANGED << ops_, engine, fault >>

\* SetPlaybackRate(playback_rate)
SetPlaybackRate(o, playback_rate) ==
  /\ fault = NoFault
  /\ op[o].state = "live"
  /\ IF op[o].animation_type_ = kConstValueAnimation
       THEN /\ hist' = [hist EXCEPT ![o].last = "SetPlaybackRate"]
            /\ UNCHANGED << ops_, op, engine, fault >>
     ELSE IF op[o].animation_type_ # kMotivatorAnimation
       THEN /\ fault' = "SetPlaybackRate"
            /\ UNCHANGED << ops_, op, engine, hist >>
     ELSE /\ op' = [op EXCEPT ![o].motivator =
                      SetSplinePlaybackRate(@, playback_rate)]
          /\ hist' = [hist EXCEPT ![o].last = "SetPlaybackRate"]
          /\ UNCHANGED << ops_, engine, fault >>

\* MotiveEngine::AdvanceFrame(delta_time): the evaluation tick; every
\* motivator the engine holds advances.
AdvanceFrame(delta_time) ==
  /\ fault = NoFault
  /\ op' = [o \in Ops |->
       IF op[o].state = "live" /\ op[o].animation_type_ = kMotivatorAnimation
         THEN [op[o] EXCEPT !.motivator = Advance(@, delta_time)]
         ELSE op[o]]
  /\ UNCHANGED << ops_, engine, fault, hist >>

(***************************************************************************)
(* Inputs of the calls.                                                    *)
(***************************************************************************)
\* Values: the two default values and an angle outside (-pi, pi].
Floats == {-4, 0, 1}

\* Ids of the descriptors an operation is constructed from: the smallest and
\* the largest valid id, and the invalid id.
Ids == {0, kMaxMatrixOpId, kInvalidMatrixOpId}


\* Descriptor kinds: a rotate, a translate, a scale.
Types == {kRotateAboutZ, kTranslateY, kScaleUniformly}

\* The MotivatorInit a descriptor may refer to.
MotivatorInits == {"SplineInit"}

\* MotiveTarget1f: the current value and a node to reach.
Targets == { << Node(1, 0, 0), Node(-4, 0, 2) >> }

\* CompactSpline: EndX() is 2.5.
Splines == { Spline(1, 0, 5) }

\* SplinePlayback: blend_x is 0, 0.5, 1.5 and 2.
Playbacks ==
  { SplinePlayback, Playback(1, 1, FALSE), Playback(3, 1, FALSE), Playback(4, 2, TRUE) }

\* MotiveTime: blend times and frame times.
BlendTimes == {0, 2}
DeltaTimes == {1}

\* Playback rates.
Rates == {0, 2}

\* The descriptors the five constructors make from the inputs.
Descriptors(ids, types, floats, targets, splines) ==
  { InitConst(i, t, v) : i \in ids, t \in types, v \in floats } \cup
  { InitMotivator(i, t, c) : i \in ids, t \in types, c \in MotivatorInits } \cup
  { InitMotivatorValue(i[1], t, i[2], v) :
      i \in ids \X MotivatorInits, t \in types, v \in floats } \cup
  { InitMotivatorTarget(i[1], t, i[2], g) :
      i \in ids \X MotivatorInits, t \in types, g \in targets } \cup
  { InitMotivatorSpline(i[1], t, i[2], c) :
      i \in ids \X MotivatorInits, t \in types, c \in splines }

\* A CompactSpline whose EndX() is 10, for the constructor.
InitSplines == Splines \cup { Spline(0, 1, 20) }

Inits == Descriptors(Ids, Types, Floats, Targets, InitSplines)

\* The descriptors an operation is blended to: rotates of another id, and
\* scales of the id the operations have.
BlendInits ==
  Descriptors({1}, {kRotateAboutZ}, Floats, Targets, Splines) \cup
  Descriptors({kMaxMatrixOpId}, {kScaleUniformly}, Floats, Targets, Splines)

(***************************************************************************)
(* Specifications.                                                         *)
(***************************************************************************)
Init ==
  /\ ops_ = MatrixOpArray
  /\ op = [o \in Ops |-> NoObject]
  /\ engine = {}
  /\ fault = NoFault
  /\ hist = [o \in Ops |-> NoHistory]

\* The calls on the object of slot o, with the full inputs.
OpNext(o) ==
  \/ \E i \in Ids, v \in Floats : ConstructDefault(o, i, v)
  \/ \E d \in Inits : Construct(o, d)
  \/ Destroy(o)
  \/ \E t \in Targets : SetTarget1f(o, t)
  \/ \E v \in Floats : SetValue1f(o, v)
  \/ \E d \in BlendInits, p \in Playbacks : BlendToOp(o, d, p)
  \/ \E b \in BlendTimes : BlendToDefault(o, b)
  \/ \E r \in Rates : SetPlaybackRate(o, r)

\* One MatrixOperation and the engine's ticks.
Next ==
  \/ OpNext(1)
  \/ \E dt \in DeltaTimes : AdvanceFrame(dt)

Spec == Init /\ [][Next]_vars

\* MatrixOpArray alone: the five AddOp overloads and Clear.  EndX() of the
\* splines is 1.5, 2 and 3.5.
ArrayIds == {1, 2}
ArrayTypes == {kRotateAboutX, kTranslateY}
ArraySplines == { Spline(0, 1, 3), Spline(0, 1, 4), Spline(1, 0, 7) }

NextArray ==
  \/ \E i \in ArrayIds, t \in ArrayTypes : AddOpConst(i, t, 1)
  \/ \E i \in ArrayIds, t \in ArrayTypes, c \in MotivatorInits :
       AddOpMotivator(i, t, c)
  \/ \E i \in ArrayIds, t \in ArrayTypes, c \in MotivatorInits :
       AddOpValue(i, t, c, 1)
  \/ \E i \in ArrayIds, t \in ArrayTypes, c \in MotivatorInits, g \in Targets :
       AddOpTarget(i, t, c, g)
  \/ \E i \in ArrayIds, t \in ArrayTypes, c \in MotivatorInits, c2 \in ArraySplines :
       AddOpSpline(i, t, c, c2)
  \/ \E n \in {0, kDefaultExpectedNumOps} : Clear(n)

SpecArray == Init /\ [][NextArray]_vars

\* Several MatrixOperation objects on one engine, with few inputs.
OwnInits ==
  { InitConst(kMaxMatrixOpId, kScaleUniformly, 0),
    InitMotivatorValue(kMaxMatrixOpId, kScaleUniformly, "SplineInit", 0) }

OwnNext(o) ==
  \/ ConstructDefault(o, kMaxMatrixOpId, 0)
  \/ \E d \in OwnInits : Construct(o, d)
  \/ Destroy(o)
  \/ SetTarget1f(o, Current1f(0))
  \/ SetValue1f(o, 0)
  \/ \E d \in OwnInits : BlendToOp(o, d, SplinePlayback)
  \/ BlendToDefault(o, 0)
  \/ SetPlaybackRate(o, 1)

NextOwn ==
  \/ \E o \in Ops : OwnNext(o)
  \/ AdvanceFrame(1)

SpecOwn == Init /\ [][NextOwn]_vars

\* A MatrixOpArray is built with the five AddOp overloads, and an operation
\* is constructed from a descriptor of the array.
BuildIds == {kMaxMatrixOpId, kInvalidMatrixOpId}

NextBuild ==
  \/ \E i \in BuildIds : AddOpConst(i, kScaleX, 0)
  \/ \E i \in BuildIds, c \in MotivatorInits : AddOpMotivator(i, kScaleX, c)
  \/ \E i \in BuildIds, c \in MotivatorInits : AddOpValue(i, kScaleX, c, 0)
  \/ \E i \in BuildIds, c \in MotivatorInits, g \in Targets :
       AddOpTarget(i, kScaleX, c, g)
  \/ \E i \in BuildIds, c \in MotivatorInits, c2 \in Splines :
       AddOpSpline(i, kScaleX, c, c2)
  \/ Clear(kDefaultExpectedNumOps)
  \/ \E i \in 1 .. Len(ops_) : Construct(1, ops_[i])
  \/ Destroy(1)

SpecBuild == Init /\ [][NextBuild]_vars

\* The specification of one operation with the engine ticking again and again.
SpecLive == Init /\ [][Next]_vars /\ WF_vars(\E dt \in DeltaTimes : AdvanceFrame(dt))

(***************************************************************************)
(* Properties.                                                             *)
(***************************************************************************)
Live(o) == op[o].state = "live"

ConstantDriven(o) == Live(o) /\ op[o].animation_type_ = kConstValueAnimation

MotivatorDriven(o) == Live(o) /\ op[o].animation_type_ = kMotivatorAnimation

FromDescriptor(o) == Live(o) /\ hist[o].ctor.init # "default"

\* C1: the value of a constant-driven operation is exactly the value last
\* passed to its constructor, SetValue1f or BlendToOp, whatever calls
\* (BlendToDefault, SetPlaybackRate, ticks) were made in between.
C1_ConstantIsLastPassed ==
  \A o \in Ops : ConstantDriven(o) => Value(o) = hist[o].passed

\* A constant rotate that holds a value set after construction.
C1_Witness ==
  \E o \in Ops : /\ ConstantDriven(o)
                 /\ hist[o].last = "SetValue1f"
                 /\ Value(o) = 1
                 /\ RotateOp(Type(o))

\* C2: an operation constructed from a descriptor is motivator driven iff the
\* descriptor carries a motivator configuration, constant driven otherwise,
\* and stays so whatever is called on it; it is never uninitialised.
C2_AnimationTypeFixed ==
  \A o \in Ops : FromDescriptor(o) =>
    op[o].animation_type_ = IF hist[o].ctor.init # nullptr
                              THEN kMotivatorAnimation ELSE kConstValueAnimation

\* A motivator-driven operation after blend calls, and its value on the move.
C2_Witness ==
  \E o \in Ops : /\ FromDescriptor(o)
                 /\ hist[o].ctor.init # nullptr
                 /\ hist[o].last = "BlendToOp"
                 /\ hist[o].pending # 0
                 /\ op[o].motivator.time > 0

\* C7: Blendable(d) is true iff d.id is the operation's id, for descriptors of
\* every kind and shape, with or without a motivator configuration, in every
\* state that blend calls lead to.
C7_BlendableIffSameId ==
  \A o \in Ops : Live(o) =>
    \A d \in Inits \cup BlendInits : Blendable(o, d) <=> (d.id = Id(o))

\* After a blend, a descriptor of another kind and shape that is blendable,
\* and one of the operation's own kind that is not.
C7_Witness ==
  \E o \in Ops :
    /\ ConstantDriven(o)
    /\ hist[o].last = "BlendToOp"
    /\ \E d \in BlendInits : /\ Blendable(o, d)
                             /\ d.type # Type(o)
                             /\ d.union_type = kUnionSpline
    /\ \E d \in BlendInits : /\ ~Blendable(o, d)
                             /\ d.type = Type(o)
                             /\ d.init = nullptr

\* The number of the four classes a kind is in.
ClassCount(k) ==
  Cardinality({ c \in 1 .. 4 : \/ c = 1 /\ RotateOp(k)
                               \/ c = 2 /\ TranslateOp(k)
                               \/ c = 3 /\ ScaleOp(k)
                               \/ c = 4 /\ k = kInvalidMatrixOperation })

MaxEndX(seq) ==
  LET ends == { EndX(seq[i].spline) : i \in { j \in 1 .. Len(seq) :
                                               seq[j].union_type = kUnionSpline } }
  IN IF ends = {} THEN 0 ELSE CHOOSE e \in ends : \A f \in ends : f <= e

\* C9 as stated: EndTime() is the largest spline end coordinate of the
\* descriptors in the sequence, and 0 when none has a spline.
C9_EndTimeIsMaxEndX == 2 * EndTime = MaxEndX(ops_)

\* C9, amended: EndTime() is the largest spline end coordinate of the
\* descriptors in the sequence cut down to a whole MotiveTime (the largest
\* whole time not beyond it), and 0 when none has a spline.
C9_EndTimeIsTruncatedMaxEndX ==
  /\ 2 * EndTime <= MaxEndX(ops_)
  /\ MaxEndX(ops_) < 2 * (EndTime + 1)
  /\ (\A i \in 1 .. Len(ops_) : ops_[i].union_type # kUnionSpline) => EndTime = 0

\* Splines ending at 3.5 and at 2 with a descriptor of another shape after
\* them: EndTime() is 3.
C9_Witness ==
  /\ Len(ops_) = 3
  /\ ops_[1].union_type = kUnionSpline /\ EndX(ops_[1].spline) = 7
  /\ ops_[2].union_type = kUnionSpline /\ EndX(ops_[2].spline) = 4
  /\ ops_[3].union_type = kUnionInitialValue
  /\ EndTime = 3

\* The motivators that the live operations hold in their unions.
OwnedHandles == { op[o].motivator.handle : o \in { q \in Ops : MotivatorDriven(q) } }

\* C8: every live motivator-driven operation holds one motivator, which the
\* engine holds too; an operation that is not motivator driven holds none; no
\* two operations hold the same one; and the engine holds no motivator
\* without its operation: each is made by a constructor and released by the
\* destructor of its operation, and by no other call.
C8_ExclusiveOwnership ==
  /\ \A o \in Ops : Live(o) =>
       (op[o].motivator # NoMotivator <=> op[o].animation_type_ = kMotivatorAnimation)
  /\ \A o \in Ops : ~Live(o) => op[o].motivator = NoMotivator
  /\ \A o, q \in Ops : MotivatorDriven(o) /\ MotivatorDriven(q) /\ o # q =>
       op[o].motivator.handle # op[q].motivator.handle
  /\ engine = OwnedHandles

\* After the second operation was destroyed and constructed again as a
\* constant, the first still holds its motivator, the only one of the engine.
C8_Witness ==
  /\ MotivatorDriven(1) /\ op[1].motivator.handle = 2
  /\ ConstantDriven(2)
  /\ hist[1].last = "BlendToDefault"
  /\ engine = {2}

\* A BlendToOp call on a motivator-driven operation with an initial-value
\* descriptor.
\* (The conjuncts on hist' follow from BlendToOp(o, d, p); they come first to
\* spare its evaluation.)
BlendToValue(o, d, p) ==
  /\ MotivatorDriven(o)
  /\ d.union_type = kUnionInitialValue
  /\ hist'[o].last = "BlendToOp"
  /\ hist'[o].passed = d.initial_value
  /\ hist'[o].want = Requested(d, p, hist[o].want)
  /\ BlendToOp(o, d, p)

\* C3 as stated: such a call with blend_x > 0 keeps the motivator and its
\* current value, and makes its target (descriptor value, velocity 0, time
\* blend_x).
C3_BlendKeepsValue ==
  [][\A o \in Ops, d \in BlendInits, p \in Playbacks :
       BlendToValue(o, d, p) /\ p.blend_x > 0 =>
         /\ op'[o].motivator.handle = op[o].motivator.handle
         /\ Value(o)' = Value(o)
         /\ \E t \in 0 .. 4 :
              /\ 2 * t = p.blend_x
              /\ op'[o].motivator.src = << "target", << Node(d.initial_value, 0, t) >> >>]_vars

\* C3, amended: such a call keeps the motivator, and makes its target
\* (descriptor value, velocity 0, time blend_x cut down to a whole MotiveTime);
\* when that time is above 0 (blend_x >= 1) the current value is unchanged by
\* the call, and the motivator heads from it to the descriptor value.
C3_BlendKeepsValueWholeTime ==
  [][\A o \in Ops, d \in BlendInits, p \in Playbacks :
       BlendToValue(o, d, p) =>
         \E t \in 0 .. 4 :
           /\ 2 * t <= p.blend_x /\ p.blend_x < 2 * (t + 1)
           /\ op'[o].motivator.handle = op[o].motivator.handle
           /\ op'[o].motivator.src = << "target", << Node(d.initial_value, 0, t) >> >>
           /\ op'[o].motivator.goal = d.initial_value
           /\ TimeRemaining(o)' = t
           /\ t > 0 => Value(o)' = Value(o)]_vars

\* Right after a blend over a whole time above 0: the value is not yet the
\* one blended to.
C3_Witness ==
  \E o \in Ops :
    /\ MotivatorDriven(o)
    /\ hist[o].last = "BlendToOp" /\ hist[o].pending = 0
    /\ \E v \in Floats, t \in 1 .. 2 :
         /\ op[o].motivator.src = << "target", << Node(v, 0, t) >> >>
         /\ TimeRemaining(o) = t
         /\ Value(o) # v

\* C4: the target or spline a motivator-driven operation follows is the one
\* that the latest BlendToOp with a descriptor that is not empty,
\* BlendToDefault (or SetTarget1f) asked for: none asked for earlier is kept
\* or comes back, whatever the ticks in between.
C4_LatestTargetWins ==
  \A o \in Ops : MotivatorDriven(o) => op[o].motivator.src = hist[o].want

\* A blend to the default, asked while a spline was being played, replaced it.
C4_Witness ==
  \E o \in Ops :
    /\ MotivatorDriven(o)
    /\ hist[o].last = "BlendToDefault"
    /\ op[o].motivator.src = << "target", Target1f(OperationDefaultValue(Type(o)), 0, 2) >>
    /\ op[o].motivator.rate = 2
    /\ TimeRemaining(o) = 1

\* C5: BlendToDefault on a motivator-driven operation makes the default value
\* of its kind the target, which is reached at once when blend_time is 0 and
\* when blend_time has passed otherwise; unless another blend call is made
\* (or an assertion aborts the program), Value() is the default value in the
\* end.
C5_BlendToDefaultReachesDefault ==
  /\ [][\A o \in Ops, b \in BlendTimes :
          MotivatorDriven(o) /\ BlendToDefault(o, b) =>
            /\ op'[o].motivator.goal = OperationDefaultValue(Type(o))
            /\ OperationDefaultValue(Type(o)) = IF ScaleOp(Type(o)) THEN 1 ELSE 0
            /\ TimeRemaining(o)' = b
            /\ b = 0 => Value(o)' = OperationDefaultValue(Type(o))
            /\ b > 0 => Value(o)' = Value(o)]_vars
  /\ \A o \in Ops : \A n \in 1 .. 2 :
       (MotivatorDriven(o) /\ hist[o].pending = n)
         ~> \/ ~(MotivatorDriven(o) /\ hist[o].pending = n)
            \/ fault # NoFault
            \/ Value(o) = OperationDefaultValue(Type(o))

\* A scale that was eased to its default value, 1, over a blend time of 2.
C5_Witness ==
  \E o \in Ops :
    /\ MotivatorDriven(o) /\ hist[o].pending # 0
    /\ ScaleOp(Type(o))
    /\ op[o].motivator.src = << "target", Target1f(1, 0, 2) >>
    /\ TimeRemaining(o) = 0
    /\ Value(o) = 1

\* C6: BlendToDefault and SetPlaybackRate on a constant-driven operation
\* raise no assertion and change nothing of the operation: not its value, id,
\* kind or animation type.
C6_ConstantNoOps ==
  [][\A o \in Ops :
       /\ ConstantDriven(o)
       /\ \/ \E b \in BlendTimes : BlendToDefault(o, b)
          \/ \E r \in Rates : SetPlaybackRate(o, r)
       => /\ fault' = NoFault
          /\ op'[o] = op[o]
          /\ Value(o)' = Value(o) /\ Id(o)' = Id(o) /\ Type(o)' = Type(o)]_vars

\* A constant that is not its kind's default value, after BlendToDefault.
C6_Witness ==
  \E o \in Ops :
    /\ ConstantDriven(o)
    /\ hist[o].last = "BlendToDefault"
    /\ Value(o) # OperationDefaultValue(Type(o))

\* The scale kinds: scale-X, scale-Y, scale-Z and scale-uniformly.
IsScale(k) == k \in {kScaleX, kScaleY, kScaleZ, kScaleUniformly}

\* C11: the default value of a kind is 1 iff the kind is one of the four
\* scale kinds, and 0 for every other kind; so it is for the kind of every
\* operation.
C11_DefaultValueOneIffScale ==
  /\ \A k \in MatrixOperationType :
       /\ OperationDefaultValue(k) = 1 <=> IsScale(k)
       /\ ~IsScale(k) => OperationDefaultValue(k) = 0
  /\ \A o \in Ops : Live(o) =>
       OperationDefaultValue(Type(o)) = IF IsScale(Type(o)) THEN 1 ELSE 0

\* A constant of kind scale-uniformly, with default 1, holding another value,
\* and a descriptor of a rotate, with default 0.
C11_Witness ==
  \E o \in Ops :
    /\ ConstantDriven(o)
    /\ Type(o) = kScaleUniformly /\ OperationDefaultValue(Type(o)) = 1
    /\ Value(o) = -4
    /\ \E d \in BlendInits : OperationDefaultValue(d.type) = 0

\* C12: BlendToOp on a constant-driven operation with a descriptor that is
\* empty, a target or a spline fails the assertion: the program aborts in
\* BlendToOp and the constant, like all of the operation, is as it was.
C12_ConstantBlendShapeFaults ==
  [][\A o \in Ops, d \in BlendInits, p \in Playbacks :
       /\ ConstantDriven(o)
       /\ d.union_type # kUnionInitialValue
       /\ BlendToOp(o, d, p)
       => /\ fault' = "BlendToOp"
          /\ op' = op
          /\ Value(o)' = Value(o)]_vars

\* The program aborted in BlendToOp called on a constant: the operation is
\* live, so the call was not the constructor's, and holds the value it had.
C12_Witness ==
  \E o \in Ops :
    /\ ConstantDriven(o)
    /\ fault = "BlendToOp"
    /\ Value(o) = hist[o].passed /\ Value(o) = 1

\* C13: SetValue1f(value) fails its assertion iff the operation is not
\* constant driven, or its kind is a rotate and value is outside the canonical
\* range of an angle; then the program aborts and the operation is as it was.
\* In every other case, a kind that is no rotate with any value included, the
\* call raises nothing and the constant is value.
C13_SetValueFaultsIff ==
  [][\A o \in Ops, v \in Floats :
       Live(o) /\ SetValue1f(o, v) =>
         LET refused == \/ ~ConstantDriven(o)
                        \/ RotateOp(Type(o)) /\ ~IsAngleInRange(v)
         IN /\ fault' # NoFault <=> refused
            /\ refused => fault' = "SetValue1f" /\ op' = op
            /\ ~refused => /\ ConstantDriven(o)'
                           /\ Value(o)' = v
                           /\ op'[o] = [op[o] EXCEPT !.const_value = v]]_vars

\* A constant rotate took the angle 1, and then the program aborted in
\* SetValue1f, which, the operation being constant driven, was called with an
\* angle out of range.
C13_Witness ==
  \E o \in Ops :
    /\ ConstantDriven(o) /\ RotateOp(Type(o))
    /\ hist[o].last = "SetValue1f" /\ Value(o) = 1
    /\ fault = "SetValue1f"

\* A call of the constructor from the descriptor d for the slot o.
\* (The conjuncts before Construct(o, d) follow from it; they come first to
\* spare its evaluation.)
ConstructFrom(o, d) ==
  /\ \/ fault' # NoFault
     \/ /\ hist'[o].ctor = [init |-> d.init, id |-> d.id, type |-> d.type]
        /\ hist'[o].passed = d.initial_value
  /\ Construct(o, d)

\* A step in which a constructor may have been called for the slot o.
ConstructorStep(o) == ~Live(o) /\ (Live(o)' \/ fault' # NoFault)

\* C14: the constructor from a descriptor fails the assertion of SetId iff the
\* descriptor's id is above kMaxMatrixOpId (the id 255, kInvalidMatrixOpId):
\* the program aborts with no operation made and no motivator handed to the
\* engine.  An id from 0 to 254 passes SetId and becomes the operation's id;
\* so Id() <= 254 for every live operation constructed from a descriptor.
C14_InvalidIdFaultsFirst ==
  /\ [][\A o \in Ops : ConstructorStep(o) =>
          \A d \in Inits : ConstructFrom(o, d) =>
            /\ d.id > kMaxMatrixOpId =>
                 fault' = "SetId" /\ engine' = engine /\ op' = op
            /\ d.id \in 0 .. kMaxMatrixOpId =>
                 fault' # "SetId" /\ (Live(o)' => Id(o)' = d.id)]_vars
  /\ [](\A o \in Ops : FromDescriptor(o) => Id(o) \in 0 .. kMaxMatrixOpId)

\* The program aborted in SetId: there is no operation and the engine holds
\* no motivator.
C14_Witness ==
  /\ fault = "SetId"
  /\ engine = {}
  /\ \A o \in Ops : op[o] = NoObject

\* C15: ValueMotivator() fails no assertion on any live operation.  It
\* returns the motivator the operation owns, one that the engine holds, when
\* the operation is motivator driven and nullptr when it is constant driven;
\* and as long as the operation lives it returns the same motivator, whatever
\* is called in between.
C15_ValueMotivatorNeverFaults ==
  /\ [](\A o \in Ops : Live(o) =>
         /\ ValueMotivatorFault(o) = NoFault
         /\ MotivatorDriven(o) =>
              /\ ValueMotivator(o) = op[o].motivator.handle
              /\ ValueMotivator(o) \in engine
         /\ ConstantDriven(o) => ValueMotivator(o) = nullptr)
  /\ [][\A o \in Ops : Live(o) /\ Live(o)' =>
          ValueMotivator(o)' = ValueMotivator(o)]_vars

\* Two motivator-driven operations, the first made after the second: each
\* accessor gives the operation's own motivator, also after calls on both; a
\* constant was in the first slot before.
C15_Witness ==
  /\ MotivatorDriven(1) /\ MotivatorDriven(2)
  /\ ValueMotivator(1) = 2 /\ ValueMotivator(2) = 1
  /\ hist[1].last = "BlendToOp" /\ hist[2].last = "SetPlaybackRate"
  /\ ValueMotivatorFault(1) = NoFault /\ ValueMotivatorFault(2) = NoFault

\* C16: TimeRemaining() is 0 for a constant-driven operation, always, and for
\* a motivator-driven operation it is the time the motivator needs to reach
\* its target.  The constructor blends with SplinePlayback(), which starts
\* the spline at 0 and does not blend in: right after the construction from a
\* spline descriptor the time is the spline's EndX() as a MotiveTime, which is
\* 10 for the spline that ends at 10.
C16_TimeRemaining ==
  /\ [](\A o \in Ops :
         /\ ConstantDriven(o) => TimeRemaining(o) = 0
         /\ MotivatorDriven(o) => TimeRemaining(o) = op[o].motivator.time)
  /\ [][\A o \in Ops : ConstructorStep(o) /\ Live(o)' =>
          \A d \in Inits : d.union_type = kUnionSpline /\ ConstructFrom(o, d) =>
            /\ TimeRemaining(o)' = StaticCastMotiveTime(EndX(d.spline))
            /\ EndX(d.spline) = 2 * 10 => TimeRemaining(o)' = 10]_vars

\* Right after the construction from the spline that ends at 10.
C16_Witness ==
  \E o \in Ops :
    /\ MotivatorDriven(o)
    /\ hist[o].last = "MatrixOperation"
    /\ op[o].motivator.src = << "spline", Spline(0, 1, 20), SplinePlayback >>
    /\ TimeRemaining(o) = 10

\* A motivator-driven operation that was constructed from an initial-value
\* descriptor and has not been called since; its value was hist[o].passed.
FreshFromValue(o) ==
  /\ MotivatorDriven(o)
  /\ hist[o].last = "MatrixOperation"
  /\ hist[o].want = << "target", Target1f(hist[o].passed, 0, 0) >>

\* C17: a motivator-driven operation constructed from an initial-value
\* descriptor with the value v has Value() = v after a tick of the engine, and
\* after every further tick, and no time left to its target: the constructor
\* blends with SplinePlayback(), whose blend_x is 0, so the value does not
\* ease from the new motivator's own.
C17_InitialValueAtOnce ==
  /\ [][\A o \in Ops, dt \in DeltaTimes :
          FreshFromValue(o) /\ AdvanceFrame(dt) =>
            Value(o)' = hist[o].passed /\ TimeRemaining(o)' = 0]_vars
  /\ [](\A o \in Ops : FreshFromValue(o) =>
         Value(o) = hist[o].passed /\ TimeRemaining(o) = 0)

\* A scale constructed with the value -4, which is neither a new motivator's
\* value nor the default of the kind: it is the value from the construction
\* on, so a tick leaves this state as it is.
C17_Witness ==
  \E o \in Ops :
    /\ FreshFromValue(o)
    /\ ScaleOp(Type(o))
    /\ hist[o].passed = -4
    /\ Value(o) = -4

\* A BlendToOp call on a motivator-driven operation with an empty descriptor.
\* (The conjuncts on hist' follow from BlendToOp(o, d, p); they come first to
\* spare its evaluation.)
BlendToEmpty(o, d, p) ==
  /\ d.union_type = kUnionEmpty
  /\ hist'[o].last = "BlendToOp"
  /\ hist'[o].want = hist[o].want
  /\ BlendToOp(o, d, p)

\* C18: BlendToOp on a motivator-driven operation with an empty descriptor
\* raises nothing and changes nothing, whatever the playback: the motivator
\* (its value, target or spline, rate and time left) and the operation's id
\* and kind are as before, and so is the engine.
C18_EmptyBlendChangesNothing ==
  [][\A o \in Ops : MotivatorDriven(o) =>
       \A d \in BlendInits, p \in Playbacks : BlendToEmpty(o, d, p) =>
         /\ fault' = NoFault
         /\ op'[o].motivator = op[o].motivator
         /\ Value(o)' = Value(o) /\ TimeRemaining(o)' = TimeRemaining(o)
         /\ Id(o)' = Id(o) /\ Type(o)' = Type(o)
         /\ op' = op /\ engine' = engine]_vars

\* An operation on its way to the default value, at the playback rate 2,
\* after a BlendToOp, which, the blend to the default still being the last
\* one asked for, had an empty descriptor.
C18_Witness ==
  \E o \in Ops :
    /\ MotivatorDriven(o)
    /\ hist[o].last = "BlendToOp" /\ hist[o].pending = 2
    /\ op[o].motivator.src = << "target", Target1f(OperationDefaultValue(Type(o)), 0, 2) >>
    /\ op[o].motivator.rate = 2
    /\ TimeRemaining(o) = 1 /\ Value(o) # OperationDefaultValue(Type(o))

\* C19: the id and the kind of an operation are those of the descriptor it
\* was constructed from, whatever was called on it since: BlendToOp,
\* BlendToDefault, SetValue1f, SetPlaybackRate, SetTarget1f and the ticks
\* change neither, not even a BlendToOp with a descriptor of another id or
\* another kind, which BlendToOp applies all the same.
C19_IdAndTypeFixed ==
  /\ [](\A o \in Ops : FromDescriptor(o) =>
         Id(o) = hist[o].ctor.id /\ Type(o) = hist[o].ctor.type)
  /\ [][\A o \in Ops : Live(o) /\ Live(o)' =>
          Id(o)' = Id(o) /\ Type(o)' = Type(o)]_vars

\* A translate of id 0 holds the value of the descriptor BlendToOp was last
\* called with, which was a rotate of id 1 or a scale of id 254.
C19_Witness ==
  \E o \in Ops :
    /\ FromDescriptor(o)
    /\ Id(o) = 0 /\ Type(o) = kTranslateY
    /\ hist[o].last = "BlendToOp"
    /\ \A d \in BlendInits : d.id # Id(o) /\ d.type # Type(o) /\ ~Blendable(o, d)
    /\ Value(o) = -4 /\ hist[o].passed = -4

\* A descriptor that carries no motivator configuration holds an initial
\* value.
ShapeFitsDriver(d) == d.init = nullptr => d.union_type = kUnionInitialValue

\* C20: a descriptor made by one of the five constructors of
\* MatrixOperationInit, and so every descriptor that the five AddOp overloads
\* put into the array, carries no motivator configuration only if it holds
\* an initial value.  So the constructor of MatrixOperation, given such a
\* descriptor with an id of at most 254, raises nothing, the assertion of
\* BlendToOp on the descriptor's shape included, and makes an operation
\* that is constant driven or motivator driven.
C20_ConstructedDescriptorsFit ==
  /\ [](/\ \A d \in Inits \cup BlendInits : ShapeFitsDriver(d)
        /\ \A i \in 1 .. Len(ops_) : ShapeFitsDriver(ops_[i]))
  /\ [](fault # "BlendToOp")
  /\ [](\A o \in Ops : Live(o) => ConstantDriven(o) \/ MotivatorDriven(o))
  /\ [][\A o \in Ops : ConstructorStep(o) =>
          \A i \in 1 .. Len(ops_) :
            Construct(o, ops_[i]) /\ ops_[i].id <= kMaxMatrixOpId =>
              /\ fault' = NoFault
              /\ ConstantDriven(o)' \/ MotivatorDriven(o)'
              /\ MotivatorDriven(o)' <=> ops_[i].init # nullptr]_vars

\* An array of a constant, an empty descriptor and a spline, and the
\* operation constructed from the second: motivator driven, with no target.
C20_Witness ==
  /\ Len(ops_) = 3
  /\ ops_[1].init = nullptr
  /\ ops_[2].union_type = kUnionEmpty /\ ops_[2].id = kMaxMatrixOpId
  /\ ops_[3].union_type = kUnionSpline
  /\ MotivatorDriven(1)
  /\ op[1].motivator.src = << "none" >>
  /\ fault = NoFault

====
